---- MODULE Spec2Model ----
(***************************************************************************)
(* A model of ComfyUI-CairoSVG:                                            *)
(*   - svgutils.upscale_with_vectorization, the raster -> BMP -> potrace   *)
(*     -> SVG -> cairosvg -> PNG pipeline with its two temporary files;    *)
(*   - install.process_wrap / handle_stream, the child-process runner      *)
(*     with its two reader threads.                                        *)
(*   - install.initialization / run_installation, the loop over the       *)
(*     requirements around the runner;                                     *)
(*   - the node classes of svg_node and the host's call of them.           *)
(* Spec is the pipeline, ConcSpec several pipeline calls at once, WrapSpec *)
(* the runner, WrapFairSpec the runner under the scheduler's fairness,     *)
(* InstallSpec the requirements loop, NodeSpec the node executions.        *)
(***************************************************************************)
EXTENDS Integers, Sequences, FiniteSets, TLC

(***************************************************************************)
(* Bounds of the model.                                                    *)
(***************************************************************************)
\* Calls of upscale_with_vectorization made one after another.
MaxCalls == 2
\* Names the temp directory can hand out (tempfile picks any unused one).
MaxNames == 3

\* Lines a child of process_wrap writes before it exits.
MaxWrites == 4
\* Lines an OS pipe holds before a write to it blocks.
PipeCap == 2

\* Lines of requirements.txt.
MaxReqs == 2
\* Calls of upscale_with_vectorization that run at the same time.
NumCalls == 2
\* Node executions the host makes.
MaxExecs == 3

\* scale is a float; the model counts in tenths, so 10 is the default 1.0.
DefaultScale == 10

\* Python's None and an optional value: None is the empty set, a value x is {x}.
None == {}
Some(x) == {x}
The(o) == CHOOSE x \in o : TRUE
\* Placeholder of a string-valued local that is not bound yet.
Unset == "unset"

(***************************************************************************)
(* Input domains.                                                          *)
(***************************************************************************)
\* PIL pixel formats a caller can hand in.
Modes == {"L", "RGB", "RGBA", "LA"}
\* The PIL formats that carry an alpha channel.
AlphaModes == {"RGBA", "LA", "PA", "RGBa", "La"}
\* Formats PIL's PNG decoder produces.
PngModes == {"RGB", "RGBA"}
Scales == {DefaultScale, 20}
Widths == {None, Some(64)}
Heights == {None, Some(48)}
ExtraArgs == {None, Some(<<>>), Some(<<"-t", "-a">>)}
ExitCodes == {-9, 0, 1}
StderrTexts == {<<>>, <<"err", "trace">>}
Callers == {"direct", "VectorizedUpscaleScaling", "VectorizedUpscaleSize"}

NameIds == 1..MaxNames
\* tempfile draws names at random until one is unused; which unused name comes
\* out changes nothing the pipeline reads, so the model takes the least one.
FreeIds(files, suffix) == {n \in NameIds : [id |-> n, suffix |-> suffix] \notin files}
FixedId(files, suffix) == 1
FreshId(files, suffix) ==
    CHOOSE n \in FreeIds(files, suffix) : \A k \in FreeIds(files, suffix) : n <= k
TempFile(n, suffix) == [id |-> n, suffix |-> suffix]

VARIABLES
    pc,             \* position of the caller's thread in upscale_with_vectorization
    calls,          \* calls started so far
    caller,         \* who made the current call
    potrace_args, scale, output_width, output_height,   \* the call's arguments
    on_path,        \* whether shutil.which("potrace") resolves during the call
    pil_mode,       \* pil_image.mode (local, rebound by step 1)
    fs,             \* temp files that exist on disk
    created,        \* temp files the current call created
    bmp_file_path, svg_file_path,
    command,        \* argv given to subprocess.run
    launched,       \* child processes launched by the current call
    child,          \* "none" | "running" | "exited"
    result,         \* CompletedProcess: None or [returncode, stderr]
    child_stderr,   \* what the child actually wrote to its stderr
    encoder_input,  \* modes handed to Image.save(format="BMP") in this call
    renderer_calls, \* arguments of each cairosvg.svg2png call in this call
    png_mode,       \* mode of the image decoded from the renderer's PNG
    pending,        \* what the try block is leaving with: None, a return or a raise
    outcome,        \* how the last call ended: None, a return or a raise
    nreturns,       \* values the current call returned to its caller
    cleanup_ran,    \* whether the finally block ran in the current call
    stages,         \* history: the stages the current call entered, in order
    results,        \* history: what the stages of the current call raised or returned
    file_ops,       \* history: create / write / close operations on the temp files
    removals        \* history: the os.remove attempts of the finally block

pvars == <<pc, calls, caller, potrace_args, scale, output_width, output_height,
           on_path, pil_mode, fs, created, bmp_file_path, svg_file_path, command,
           launched, child, result, child_stderr, encoder_input, renderer_calls,
           png_mode, pending, outcome, nreturns, cleanup_ran,
           stages, results, file_ops, removals>>

VARIABLES
    wpc,            \* index of the statement of process_wrap the caller's thread is at
    prog,           \* writes the child still has to make: <<stream, line>> each
    cstate,         \* child process: "none" | "running" | "exited"
    exit_status,    \* the status the child exited with (None while it runs)
    pipe,           \* per stream, the lines written and not yet read
    closed,         \* per stream, whether the child's end is closed
    written,        \* per stream, every line the child wrote, in order
    tstate,         \* per reader thread: "new" | "running" | "done"
    msg,            \* per reader thread, the line its for loop is holding
    sys_out,        \* what was printed to the caller's sys.stdout / sys.stderr
    retcode         \* what process_wrap returned (None until it returns)

wvars == <<wpc, prog, cstate, exit_status, pipe, closed, written, tstate, msg,
           sys_out, retcode>>

VARIABLES
    ipc,            \* position of initialization(): "start" | "loop" | "run_installation"
                    \*   | "process_wrap" | "done" | "crashed"
    nreqs,          \* number of lines read_requirements() returned
    idx,            \* the requirement the for loop is at (1-based)
    imports,        \* history: each requirement examined and how its __import__ ended
    launches,       \* history: the requirements process_wrap was called for
    installs        \* history: status, returned code and printed report of each
                    \*   finished run_installation

ivars == <<ipc, nreqs, idx, imports, launches, installs>>

VARIABLES
    cpc,            \* per concurrent call, its position
    cbmp, csvg,     \* per concurrent call, its bmp_file_path and svg_file_path
    cfs,            \* the temp files on the disk the concurrent calls share
    ccreated,       \* per concurrent call, the temp files it created and has not removed
    cops            \* history: the accesses made to temp files, with whose file it was

cvars == <<cpc, cbmp, csvg, cfs, ccreated, cops>>

VARIABLES
    node,           \* the node class the host is executing
    kwargs,         \* the keyword arguments the host built from INPUT_TYPES
    bound,          \* how binding them to the FUNCTION method ended
    execs           \* node executions so far

nvars == <<node, kwargs, bound, execs>>

vars == <<pvars, wvars, ivars, cvars, nvars>>

(***************************************************************************)
(* Pure helpers of the pipeline.                                           *)
(***************************************************************************)
\* Image.convert(mode): the result is an image in the requested mode.
Convert(mode, target) == target

\* Image.alpha_composite(background, image): both must be RGBA, so is the result.
AlphaComposite(bg, mode) == IF bg = "RGBA" /\ mode = "RGBA" THEN "RGBA" ELSE Unset

\* Step 1: only the mode "RGBA" is composited over white and converted to RGB.
Normalize(mode) ==
    IF mode = "RGBA" THEN Convert(AlphaComposite("RGBA", mode), "RGB") ELSE mode

\* Modes PIL's BMP writer accepts; any other mode makes save() raise.
BmpSaveModes == {"1", "L", "P", "RGB", "RGBA"}

\* list slice assignment  lst[i:i] = xs  (0-based i).
SliceInsert(lst, i, xs) ==
    SubSeq(lst, 1, i) \o xs \o SubSeq(lst, i + 1, Len(lst))

\* Python truthiness of the optional list potrace_args.
Truthy(args) == args # None /\ The(args) # <<>>

\* An argv element: a literal word, or the path of a temp file.
Word(w) == [word |-> w]
Path(f) == [path |-> f]
Words(ws) == [i \in 1..Len(ws) |-> Word(ws[i])]

\* command = ["potrace", bmp_file_path, "-s", "-o", svg_file_path], then
\* command[1:1] = potrace_args when potrace_args is truthy.
BuildCommandAppend(bmp, svg, args) ==
    LET base == <<Word("potrace"), Path(bmp), Word("-s"), Word("-o"), Path(svg)>>
    IN  IF Truthy(args) THEN base \o Words(The(args)) ELSE base
BuildCommand(bmp, svg, args) ==
    LET base == <<Word("potrace"), Path(bmp), Word("-s"), Word("-o"), Path(svg)>>
    IN  IF Truthy(args) THEN SliceInsert(base, 1, Words(The(args))) ELSE base

\* result.returncode != 0
TraceFailedPositive(rc) == rc > 0
TraceFailed(rc) == rc # 0

PotraceErrorPrefix == <<"Potrace execution failed: ">>
PotraceErrorText(stderr) == PotraceErrorPrefix \o stderr

\* Step 7: return output_image.convert("RGBA")
ReturnValueNoConvert(mode) == mode
ReturnValue(mode) == Convert(mode, "RGBA")

Error(stage, text) == [kind |-> "raise", stage |-> stage, text |-> text]
Returned(mode) == [kind |-> "return", mode |-> mode]

(***************************************************************************)
(* The caller: a direct call with any keyword arguments, or a host node.   *)
(***************************************************************************)
CallArgs(who, s, w, h, extra) ==
    CASE who = "VectorizedUpscaleScaling" ->
            [scale |-> s, w |-> None, h |-> None, extra |-> None]
      [] who = "VectorizedUpscaleSize" ->
            [scale |-> DefaultScale, w |-> w, h |-> h, extra |-> None]
      [] OTHER -> [scale |-> s, w |-> w, h |-> h, extra |-> extra]

PInit ==
    /\ pc = "idle"
    /\ calls = 0
    /\ caller = Unset
    /\ potrace_args = None
    /\ scale = DefaultScale
    /\ output_width = None
    /\ output_height = None
    /\ on_path = TRUE
    /\ pil_mode = Unset
    /\ fs = {}
    /\ created = {}
    /\ bmp_file_path = None
    /\ svg_file_path = None
    /\ command = <<>>
    /\ launched = 0
    /\ child = "none"
    /\ result = None
    /\ child_stderr = None
    /\ encoder_input = <<>>
    /\ renderer_calls = <<>>
    /\ png_mode = Unset
    /\ pending = None
    /\ outcome = None
    /\ nreturns = 0
    /\ cleanup_ran = FALSE
    /\ stages = <<>>
    /\ results = <<>>
    /\ file_ops = <<>>
    /\ removals = <<>>

\* An exception that leaves the function outside the try/finally.
RaiseOut(e) ==
    /\ outcome' = Some(e)
    /\ pc' = "idle"
    /\ results' = Append(results, e)
    /\ UNCHANGED pending

\* An exception or a return inside the try block: the finally block runs first.
LeaveTry(p) ==
    /\ pending' = Some(p)
    /\ pc' = "cleanup_bmp"
    /\ results' = Append(results, p)
    /\ UNCHANGED outcome

Goto(l) ==
    /\ pc' = l
    /\ UNCHANGED <<pending, outcome, results>>

\* A caller enters upscale_with_vectorization.
Call ==
    /\ pc = "idle"
    /\ calls < MaxCalls
    /\ \E who \in Callers, m \in Modes, s \in Scales, w \in Widths, h \in Heights,
          extra \in ExtraArgs, present \in BOOLEAN :
         LET a == CallArgs(who, s, w, h, extra) IN
         /\ (who = "VectorizedUpscaleScaling" => w = None /\ h = None /\ extra = None)
         /\ (who = "VectorizedUpscaleSize" =>
                 s = DefaultScale /\ w # None /\ h # None /\ extra = None)
         /\ caller' = who
         /\ pil_mode' = m
         /\ scale' = a.scale
         /\ output_width' = a.w
         /\ output_height' = a.h
         /\ potrace_args' = a.extra
         /\ on_path' = present
    /\ calls' = calls + 1
    /\ pc' = "step0"
    /\ created' = {}
    /\ bmp_file_path' = None
    /\ svg_file_path' = None
    /\ command' = <<>>
    /\ launched' = 0
    /\ child' = "none"
    /\ result' = None
    /\ child_stderr' = None
    /\ encoder_input' = <<>>
    /\ renderer_calls' = <<>>
    /\ png_mode' = Unset
    /\ pending' = None
    /\ outcome' = None
    /\ nreturns' = 0
    /\ cleanup_ran' = FALSE
    /\ stages' = <<>>
    /\ results' = <<>>
    /\ file_ops' = <<>>
    /\ removals' = <<>>
    /\ UNCHANGED <<wvars, ivars, cvars, nvars, fs>>

\* Everything of the call's frame that a step leaves alone.
args_vars == <<calls, caller, potrace_args, scale, output_width, output_height, on_path>>

\* Step 0: shutil.which("potrace"); a miss raises before anything else is done.
Step0_CheckDependenciesSkipped ==
    /\ pc = "step0"
    /\ stages' = Append(stages, "PreFlight")
    /\ UNCHANGED <<file_ops, removals>>
    /\ Goto("step1")
    /\ UNCHANGED <<wvars, ivars, cvars, nvars, args_vars, pil_mode, fs, created, bmp_file_path, svg_file_path,
                   command, launched, child, result, child_stderr, encoder_input,
                   renderer_calls, png_mode, nreturns, cleanup_ran>>
Step0_CheckDependencies ==
    /\ pc = "step0"
    /\ stages' = Append(stages, "PreFlight")
    /\ UNCHANGED <<file_ops, removals>>
    /\ \/ /\ ~on_path
          /\ RaiseOut(Error("ToolNotFound", <<"Potrace is not installed or not found in PATH. ">>))
       \/ /\ on_path
          /\ Goto("step1")
    /\ UNCHANGED <<wvars, ivars, cvars, nvars, args_vars, pil_mode, fs, created, bmp_file_path, svg_file_path,
                   command, launched, child, result, child_stderr, encoder_input,
                   renderer_calls, png_mode, nreturns, cleanup_ran>>

\* Step 1: an RGBA image is composited over white and converted to RGB.  Building
\* the background can fail (Image.new allocates); nothing catches that.
Step1_ConvertRGBA ==
    /\ pc = "step1"
    /\ stages' = Append(stages, "AlphaNormalize")
    /\ UNCHANGED <<file_ops, removals>>
    /\ \/ /\ pil_mode' = Normalize(pil_mode)
          /\ Goto("step2")
       \/ /\ pil_mode = "RGBA"
          /\ RaiseOut(Error("AlphaNormalize", <<"MemoryError">>))
          /\ UNCHANGED pil_mode
    /\ UNCHANGED <<wvars, ivars, cvars, nvars, args_vars, fs, created, bmp_file_path, svg_file_path,
                   command, launched, child, result, child_stderr, encoder_input,
                   renderer_calls, png_mode, nreturns, cleanup_ran>>

\* Step 2: pil_image.save(bmp_bytes_io, format="BMP"); any exception is re-raised
\* as RuntimeError.  A mode the BMP writer does not know always raises.
Step2_SaveBmp ==
    /\ pc = "step2"
    /\ stages' = Append(stages, "Encode")
    /\ UNCHANGED <<file_ops, removals>>
    /\ encoder_input' = Append(encoder_input, pil_mode)
    /\ \/ /\ pil_mode \in BmpSaveModes
          /\ Goto("step3_create")
       \/ RaiseOut(Error("Encode", <<"Failed to convert input image to BMP in memory: ">>))
    /\ UNCHANGED <<wvars, ivars, cvars, nvars, args_vars, pil_mode, fs, created, bmp_file_path, svg_file_path,
                   command, launched, child, result, child_stderr,
                   renderer_calls, png_mode, nreturns, cleanup_ran>>

\* Step 3: tempfile.NamedTemporaryFile(suffix=".bmp", delete=False) creates a file
\* under a name no existing file has, or raises.
Step3_CreateBmpFile ==
    /\ pc = "step3_create"
    /\ stages' = Append(stages, "WriteTempInput")
    /\ UNCHANGED <<removals>>
    /\ \/ LET f == TempFile(FreshId(fs, ".bmp"), ".bmp") IN
             /\ FreeIds(fs, ".bmp") # {}
             /\ fs' = fs \cup {f}
             /\ created' = created \cup {f}
             /\ bmp_file_path' = Some(f)
             /\ file_ops' = Append(file_ops, "create.bmp")
             /\ Goto("step3_write")
       \/ /\ RaiseOut(Error("WriteTempInput", <<"OSError">>))
          /\ UNCHANGED <<fs, created, bmp_file_path, file_ops>>
    /\ UNCHANGED <<wvars, ivars, cvars, nvars, args_vars, pil_mode, svg_file_path,
                   command, launched, child, result, child_stderr, encoder_input,
                   renderer_calls, png_mode, nreturns, cleanup_ran>>

\* Step 3, inside the with block: bmp_file.write(bmp_data).  The with block
\* closes the file either way; delete=False leaves it on disk, and the write is
\* not inside the try/finally.
Step3_WriteBmpRetry ==
    /\ pc = "step3_write"
    /\ UNCHANGED <<stages, removals>>
    /\ \/ /\ file_ops' = file_ops \o <<"write.bmp", "close.bmp">>
          /\ Goto("step4_mkstemp")
       \/ /\ file_ops' = Append(file_ops, "close.bmp")
          /\ Goto("step3_create")
    /\ svg_file_path' = None
    /\ UNCHANGED <<wvars, ivars, cvars, nvars, args_vars, pil_mode, fs, created, bmp_file_path,
                   command, launched, child, result, child_stderr, encoder_input,
                   renderer_calls, png_mode, nreturns, cleanup_ran>>
Step3_WriteBmp ==
    /\ pc = "step3_write"
    /\ UNCHANGED <<stages, removals>>
    /\ \/ /\ file_ops' = file_ops \o <<"write.bmp", "close.bmp">>
          /\ Goto("step4_mkstemp")
       \/ /\ file_ops' = Append(file_ops, "close.bmp")
          /\ RaiseOut(Error("WriteTempInput", <<"OSError">>))
    /\ svg_file_path' = None
    /\ UNCHANGED <<wvars, ivars, cvars, nvars, args_vars, pil_mode, fs, created, bmp_file_path,
                   command, launched, child, result, child_stderr, encoder_input,
                   renderer_calls, png_mode, nreturns, cleanup_ran>>

\* Step 4: svg_fd, svg_file_path = tempfile.mkstemp(suffix=".svg"); os.close(svg_fd)
Step4_Mkstemp ==
    /\ pc = "step4_mkstemp"
    /\ stages' = Append(stages, "Trace")
    /\ UNCHANGED <<removals>>
    /\ \/ LET f == TempFile(FreshId(fs, ".svg"), ".svg") IN
             /\ FreeIds(fs, ".svg") # {}
             /\ fs' = fs \cup {f}
             /\ created' = created \cup {f}
             /\ svg_file_path' = Some(f)
             /\ file_ops' = file_ops \o <<"create.svg", "close.svg">>
             /\ Goto("step4_run")
       \/ /\ LeaveTry(Error("Trace", <<"OSError">>))
          /\ UNCHANGED <<fs, created, svg_file_path, file_ops>>
    /\ UNCHANGED <<wvars, ivars, cvars, nvars, args_vars, pil_mode, bmp_file_path,
                   command, launched, child, result, child_stderr, encoder_input,
                   renderer_calls, png_mode, nreturns, cleanup_ran>>

\* Step 4: the command is built and subprocess.run launches the child, or fails
\* to (the executable vanished since step 0).
Step4_RunPotraceNoWait ==
    /\ pc = "step4_run"
    /\ UNCHANGED <<stages, file_ops, removals>>
    /\ command' = BuildCommand(The(bmp_file_path), The(svg_file_path), potrace_args)
    /\ \/ /\ launched' = launched + 1
          /\ child' = "running"
          /\ Goto("step5")
       \/ /\ LeaveTry(Error("Trace", <<"FileNotFoundError">>))
          /\ UNCHANGED <<launched, child>>
    /\ UNCHANGED <<wvars, ivars, cvars, nvars, args_vars, pil_mode, fs, created, bmp_file_path, svg_file_path,
                   result, child_stderr, encoder_input,
                   renderer_calls, png_mode, nreturns, cleanup_ran>>
Step4_RunPotrace ==
    /\ pc = "step4_run"
    /\ UNCHANGED <<stages, file_ops, removals>>
    /\ command' = BuildCommand(The(bmp_file_path), The(svg_file_path), potrace_args)
    /\ \/ /\ launched' = launched + 1
          /\ child' = "running"
          /\ Goto("step4_wait")
       \/ /\ LeaveTry(Error("Trace", <<"FileNotFoundError">>))
          /\ UNCHANGED <<launched, child>>
    /\ UNCHANGED <<wvars, ivars, cvars, nvars, args_vars, pil_mode, fs, created, bmp_file_path, svg_file_path,
                   result, child_stderr, encoder_input,
                   renderer_calls, png_mode, nreturns, cleanup_ran>>

\* subprocess.run(capture_output=True, text=True) returns once the child has
\* exited, with its exit status and everything it wrote to stderr.
Step4_PotraceExit ==
    /\ pc = "step4_wait"
    /\ UNCHANGED <<stages, file_ops, removals>>
    /\ child = "running"
    /\ \E rc \in ExitCodes, text \in StderrTexts :
         /\ child_stderr' = Some(text)
         /\ result' = Some([returncode |-> rc, stderr |-> text])
    /\ child' = "exited"
    /\ Goto("step4_check")
    /\ UNCHANGED <<wvars, ivars, cvars, nvars, args_vars, pil_mode, fs, created, bmp_file_path, svg_file_path,
                   command, launched, encoder_input,
                   renderer_calls, png_mode, nreturns, cleanup_ran>>

\* if result.returncode != 0: raise RuntimeError(f"Potrace execution failed: {result.stderr}")
Step4_CheckReturncodeRetry ==
    /\ pc = "step4_check"
    /\ UNCHANGED <<stages, file_ops, removals>>
    /\ IF TraceFailed(The(result).returncode)
         THEN IF launched < 2
                 THEN Goto("step4_run")
                 ELSE LeaveTry(Error("Trace", PotraceErrorText(The(result).stderr)))
         ELSE Goto("step5")
    /\ UNCHANGED <<wvars, ivars, cvars, nvars, args_vars, pil_mode, fs, created, bmp_file_path, svg_file_path,
                   command, launched, child, result, child_stderr, encoder_input,
                   renderer_calls, png_mode, nreturns, cleanup_ran>>
Step4_CheckReturncode ==
    /\ pc = "step4_check"
    /\ UNCHANGED <<stages, file_ops, removals>>
    /\ IF TraceFailed(The(result).returncode)
         THEN LeaveTry(Error("Trace", PotraceErrorText(The(result).stderr)))
         ELSE Goto("step5")
    /\ UNCHANGED <<wvars, ivars, cvars, nvars, args_vars, pil_mode, fs, created, bmp_file_path, svg_file_path,
                   command, launched, child, result, child_stderr, encoder_input,
                   renderer_calls, png_mode, nreturns, cleanup_ran>>

\* Step 5: open(svg_file_path, "rb").read()
Step5_ReadSvg ==
    /\ pc = "step5"
    /\ stages' = Append(stages, "ReadVectorOutput")
    /\ UNCHANGED <<file_ops, removals>>
    /\ \/ /\ The(svg_file_path) \in fs
          /\ Goto("step6")
       \/ LeaveTry(Error("ReadVectorOutput", <<"Failed to read generated SVG file: ">>))
    /\ UNCHANGED <<wvars, ivars, cvars, nvars, args_vars, pil_mode, fs, created, bmp_file_path, svg_file_path,
                   command, launched, child, result, child_stderr, encoder_input,
                   renderer_calls, png_mode, nreturns, cleanup_ran>>

\* Step 6: cairosvg.svg2png(bytestring=svg_data, scale=scale,
\*                          output_width=output_width, output_height=output_height)
RendererArgs(s, w, h) ==
    [scale |-> s, output_width |-> w, output_height |-> h]

Step6_Svg2Png ==
    /\ pc = "step6"
    /\ stages' = Append(stages, "Rasterize")
    /\ UNCHANGED <<file_ops, removals>>
    /\ renderer_calls' =
           Append(renderer_calls, RendererArgs(scale, output_width, output_height))
    /\ \/ Goto("step7")
       \/ LeaveTry(Error("Rasterize", <<"Failed to convert SVG to PNG using CairoSVG: ">>))
    /\ UNCHANGED <<wvars, ivars, cvars, nvars, args_vars, pil_mode, fs, created, bmp_file_path, svg_file_path,
                   command, launched, child, result, child_stderr, encoder_input,
                   png_mode, nreturns, cleanup_ran>>

\* Step 7: Image.open, load, return output_image.convert("RGBA")
Step7_OpenPng ==
    /\ pc = "step7"
    /\ stages' = Append(stages, "DecodeFinal")
    /\ UNCHANGED <<file_ops, removals>>
    /\ \/ \E m \in PngModes :
             /\ png_mode' = m
             /\ LeaveTry(Returned(ReturnValue(m)))
       \/ /\ LeaveTry(Error("DecodeFinal", <<"Failed to open generated PNG as PIL Image: ">>))
          /\ UNCHANGED png_mode
    /\ UNCHANGED <<wvars, ivars, cvars, nvars, args_vars, pil_mode, fs, created, bmp_file_path, svg_file_path,
                   command, launched, child, result, child_stderr, encoder_input,
                   renderer_calls, nreturns, cleanup_ran>>

\* try: os.remove(path) / except OSError: pass -- a failed removal leaves what
\* the try block is leaving with (its return value or its exception) as it is.
PropagateOSError(p) == Some(Error("Cleanup", <<"OSError">>))
SwallowOSError(p) == p

\* finally: if os.path.exists(bmp_file_path): try os.remove(...) except OSError: pass
Cleanup_Bmp ==
    /\ pc = "cleanup_bmp"
    /\ cleanup_ran' = TRUE
    /\ \/ /\ The(bmp_file_path) \in fs
          /\ fs' = fs \ bmp_file_path
          /\ removals' = Append(removals, [file |-> The(bmp_file_path), ok |-> TRUE])
          /\ UNCHANGED pending
       \/ /\ The(bmp_file_path) \in fs
          /\ removals' = Append(removals, [file |-> The(bmp_file_path), ok |-> FALSE])
          /\ pending' = SwallowOSError(pending)
          /\ UNCHANGED fs
       \/ /\ The(bmp_file_path) \notin fs
          /\ UNCHANGED <<fs, removals, pending>>
    /\ pc' = "cleanup_svg"
    /\ UNCHANGED <<wvars, ivars, cvars, nvars, args_vars, pil_mode, created, bmp_file_path, svg_file_path,
                   command, launched, child, result, child_stderr, encoder_input,
                   renderer_calls, png_mode, nreturns, outcome, stages, results,
                   file_ops>>

\* finally: if svg_file_path and os.path.exists(svg_file_path): try os.remove(...)
Cleanup_Svg ==
    /\ pc = "cleanup_svg"
    /\ \/ /\ svg_file_path # None
          /\ The(svg_file_path) \in fs
          /\ fs' = fs \ svg_file_path
          /\ removals' = Append(removals, [file |-> The(svg_file_path), ok |-> TRUE])
          /\ UNCHANGED pending
       \/ /\ svg_file_path # None
          /\ The(svg_file_path) \in fs
          /\ removals' = Append(removals, [file |-> The(svg_file_path), ok |-> FALSE])
          /\ pending' = SwallowOSError(pending)
          /\ UNCHANGED fs
       \/ /\ IF svg_file_path = None THEN TRUE ELSE The(svg_file_path) \notin fs
          /\ UNCHANGED <<fs, removals, pending>>
    /\ pc' = "leave"
    /\ UNCHANGED <<wvars, ivars, cvars, nvars, args_vars, pil_mode, created, bmp_file_path, svg_file_path,
                   command, launched, child, result, child_stderr, encoder_input,
                   renderer_calls, png_mode, nreturns, cleanup_ran, outcome, stages,
                   results, file_ops>>

\* The finally block has no return of its own: the pending return value or the
\* pending exception leaves the function.
Leave ==
    /\ pc = "leave"
    /\ UNCHANGED <<stages, results, file_ops, removals>>
    /\ outcome' = pending
    /\ nreturns' = IF The(pending).kind = "return" THEN nreturns + 1 ELSE nreturns
    /\ pc' = "idle"
    /\ UNCHANGED <<wvars, ivars, cvars, nvars, args_vars, pil_mode, fs, created, bmp_file_path, svg_file_path,
                   command, launched, child, result, child_stderr, encoder_input,
                   renderer_calls, png_mode, pending, cleanup_ran>>

PNext ==
    \/ Call
    \/ Step0_CheckDependencies
    \/ Step1_ConvertRGBA
    \/ Step2_SaveBmp
    \/ Step3_CreateBmpFile
    \/ Step3_WriteBmp
    \/ Step4_Mkstemp
    \/ Step4_RunPotrace
    \/ Step4_PotraceExit
    \/ Step4_CheckReturncode
    \/ Step5_ReadSvg
    \/ Step6_Svg2Png
    \/ Step7_OpenPng
    \/ Cleanup_Bmp
    \/ Cleanup_Svg
    \/ Leave


(***************************************************************************)
(* Properties of upscale_with_vectorization, checked under Spec.           *)
(***************************************************************************)
\* The exception or return value the current call is leaving with, if any.
Leaving == IF pending # None THEN pending ELSE outcome
HasReturned == pc = "idle" /\ calls > 0

\* s occurs in text as one unbroken piece.
Contains(text, s) ==
    \E i \in 1..(Len(text) + 1) :
        /\ i + Len(s) - 1 <= Len(text)
        /\ SubSeq(text, i, i + Len(s) - 1) = s

IsToolExecutionError(e) ==
    /\ e.kind = "raise"
    /\ e.stage = "Trace"
    /\ Len(e.text) >= 1
    /\ e.text[1] = "Potrace execution failed: "

\* C1: once a call has returned, however it ended, no temp file that call
\* created still exists on disk.
C1_NoTempFileAfterReturn ==
    HasReturned => created \cap fs = {}

\* C2: when potrace is not on the search path the call does nothing but fail
\* with the tool-not-found error: it never gets past step 0, creates no temp
\* file, launches no child, never calls the encoder or the renderer.
C2_ToolNotFoundIsClean ==
    (calls > 0 /\ ~on_path) =>
        /\ pc \in {"step0", "idle"}
        /\ created = {}
        /\ launched = 0
        /\ renderer_calls = <<>>
        /\ encoder_input = <<>>
        /\ pending = None
        /\ (pc = "idle" =>
               /\ outcome # None
               /\ The(outcome).kind = "raise"
               /\ The(outcome).stage = "ToolNotFound")
C2_Witness ==
    /\ HasReturned
    /\ ~on_path
    /\ calls = 2
    /\ fs # {}
    /\ The(outcome).stage = "ToolNotFound"

\* C6: once the exit status of the tracer has been examined, the call is
\* leaving with the tool-execution error exactly when the status is not 0, and
\* the error's text contains everything the child wrote to stderr, unmodified.
C6_NonZeroExitRaisesWithStderr ==
    (result # None /\ pc # "step4_check") =>
        LET rc == The(result).returncode IN
        /\ rc # 0 =>
              /\ Leaving # None
              /\ IsToolExecutionError(The(Leaving))
              /\ Contains(The(Leaving).text, The(child_stderr))
              /\ renderer_calls = <<>>
        /\ rc = 0 => (Leaving = None \/ ~IsToolExecutionError(The(Leaving)))
C6_Witness ==
    /\ HasReturned
    /\ result # None
    /\ The(result).returncode = -9
    /\ The(child_stderr) = <<"err", "trace">>
    /\ IsToolExecutionError(The(outcome))

\* C7: every renderer call carries exactly one sizing mode, never a scale
\* (one other than the neutral 1.0) together with explicit dimensions; with
\* neither given it is scale 1.0 and no dimensions.
OneSizingMode(c) ==
    ~(c.scale # DefaultScale /\ (c.output_width # None \/ c.output_height # None))
C7_ExactlyOneSizingMode ==
    \A i \in DOMAIN renderer_calls : OneSizingMode(renderer_calls[i])

\* C8: the image handed to the BMP encoder never carries an alpha channel, and
\* no call of an alpha-carrying input ends with a failure of the Encode stage.
C8_EncoderInputAlphaFree ==
    /\ \A i \in DOMAIN encoder_input : encoder_input[i] \notin AlphaModes
    /\ (HasReturned /\ outcome # None /\ The(outcome).kind = "raise"
          /\ The(outcome).stage = "Encode") => pil_mode \notin AlphaModes

\* C9: a value the call returns is an RGBA image, whatever the renderer's PNG
\* decoded to, and a call returns a value at most once.
C9_ReturnsRgbaOnce ==
    /\ nreturns <= 1
    /\ (Leaving # None /\ The(Leaving).kind = "return") =>
           The(Leaving).mode = "RGBA"
    /\ (HasReturned /\ outcome # None /\ The(outcome).kind = "return") =>
           nreturns = 1
    /\ (HasReturned /\ outcome # None /\ The(outcome).kind = "raise") =>
           nreturns = 0
C9_Witness ==
    /\ HasReturned
    /\ The(outcome).kind = "return"
    /\ png_mode = "RGB"
    /\ pil_mode = "L"
    /\ output_width # None

\* C10: the tracer's command line is the tool name, the caller's extra
\* arguments in order, the input path, "-s", "-o", the output path.
C10_CommandLayout ==
    command # <<>> =>
        LET extras == IF potrace_args = None THEN <<>> ELSE The(potrace_args)
            n == Len(extras)
        IN  /\ Len(command) = n + 5
            /\ command[1] = Word("potrace")
            /\ \A i \in 1..n : command[1 + i] = Word(extras[i])
            /\ command[n + 2] = Path(The(bmp_file_path))
            /\ command[n + 3] = Word("-s")
            /\ command[n + 4] = Word("-o")
            /\ command[n + 5] = Path(The(svg_file_path))
C10_Witness ==
    /\ launched = 1
    /\ potrace_args = Some(<<"-t", "-a">>)
    /\ Len(command) = 7

\* The stages of one call in program order.
StageOrder ==
    <<"PreFlight", "AlphaNormalize", "Encode", "WriteTempInput", "Trace",
      "ReadVectorOutput", "Rasterize", "DecodeFinal">>
Entered(stage) == \E i \in DOMAIN stages : stages[i] = stage
LastStage == stages[Len(stages)]
\* The stage an error names; the pre-flight check names its error ToolNotFound.
StageOfError(e) == IF e.stage = "ToolNotFound" THEN "PreFlight" ELSE e.stage
Count(seq, x) == Cardinality({i \in DOMAIN seq : seq[i] = x})
Position(seq, x) == CHOOSE i \in DOMAIN seq : seq[i] = x
Attempted(f) == \E i \in DOMAIN removals : removals[i].file = f

\* C11: a call that got past the pre-flight check and has returned, whichever
\* way it ended, ran the temp-file removal block before it returned.
C11_CleanupAlwaysRuns ==
    (HasReturned /\ Entered("AlphaNormalize")) => cleanup_ran

\* C12: once the removal block has run, the call ends with exactly what its
\* stages left with (the return value, or the stage's error), whether or not a
\* removal failed; and a failed removal of the first file does not keep the
\* second from being attempted.
C12_CleanupErrorsIgnored ==
    /\ (cleanup_ran /\ pc \in {"cleanup_svg", "leave"}) =>
           pending = Some(results[1])
    /\ (cleanup_ran /\ HasReturned) => outcome = Some(results[1])
    /\ (cleanup_ran /\ pc \in {"leave", "idle"} /\ svg_file_path # None) =>
           Attempted(The(svg_file_path))
C12_Witness ==
    /\ HasReturned
    /\ Len(removals) = 2
    /\ ~removals[1].ok
    /\ ~removals[2].ok
    /\ The(outcome).kind = "return"

\* C13: the stages a call has entered are an initial piece of the fixed stage
\* order, so each is entered at most once and only after the one before it; a
\* stage is entered only while no earlier stage has failed; and the vector
\* output is read only after the tracer has exited, with status 0.
C13_StagesInOrder ==
    /\ Len(stages) <= Len(StageOrder)
    /\ \A i \in DOMAIN stages : stages[i] = StageOrder[i]
    /\ \A i \in DOMAIN results :
          results[i].kind = "raise" => StageOfError(results[i]) = LastStage
    /\ Entered("ReadVectorOutput") =>
          /\ child = "exited"
          /\ result # None
          /\ The(result).returncode = 0
    /\ (launched > 0) => Entered("Trace")
C13_Witness ==
    /\ HasReturned
    /\ stages = StageOrder
    /\ The(outcome).kind = "return"

\* C14: a call launches the tracer at most once and calls the renderer at most
\* once; at most one stage fails, nothing but the removal block runs after it,
\* and the error the caller gets is that stage's error.
C14_NoRetry ==
    /\ launched <= 1
    /\ Len(renderer_calls) <= 1
    /\ Len(results) <= 1
    /\ results # <<>> => pc \in {"idle", "cleanup_bmp", "cleanup_svg", "leave"}
    /\ (HasReturned /\ The(outcome).kind = "raise") =>
           /\ outcome = Some(results[1])
           /\ StageOfError(The(outcome)) = LastStage
C14_Witness ==
    /\ HasReturned
    /\ launched = 1
    /\ result # None
    /\ The(result).returncode = 1
    /\ The(outcome).kind = "raise"
    /\ The(outcome).stage = "Trace"
    /\ renderer_calls = <<>>

\* C16: a call owns at most one .bmp and at most one .svg temp file, creates
\* neither twice, and creates the .svg file only after the .bmp file has been
\* written and closed.
C16_OneInputOneOutputFile ==
    /\ Cardinality({f \in created : f.suffix = ".bmp"}) <= 1
    /\ Cardinality({f \in created : f.suffix = ".svg"}) <= 1
    /\ Count(file_ops, "create.bmp") <= 1
    /\ Count(file_ops, "create.svg") <= 1
    /\ Count(file_ops, "create.svg") = 1 =>
          /\ Count(file_ops, "write.bmp") = 1
          /\ Count(file_ops, "close.bmp") = 1
          /\ Position(file_ops, "create.bmp") < Position(file_ops, "write.bmp")
          /\ Position(file_ops, "write.bmp") < Position(file_ops, "close.bmp")
          /\ Position(file_ops, "close.bmp") < Position(file_ops, "create.svg")
    /\ svg_file_path # None => (bmp_file_path # None /\ Count(file_ops, "close.bmp") = 1)
C16_Witness ==
    /\ Cardinality(created) = 2
    /\ calls = 2
    /\ Cardinality(fs) = 4

(***************************************************************************)
(* install.process_wrap with the default handler, handle_stream.           *)
(***************************************************************************)
Streams == {"stdout", "stderr"}
Threads == {"stdout_thread", "stderr_thread"}
WExitCodes == {0, 1}

\* threading.Thread(target=handler, args=(process.stdout, True)) and
\* threading.Thread(target=handler, args=(process.stderr, False))
ThreadArgs(t) ==
    IF t = "stdout_thread"
        THEN [stream |-> "stdout", is_stdout |-> TRUE]
        ELSE [stream |-> "stderr", is_stdout |-> FALSE]

\* handle_stream: print(msg, end="", file=sys.stdout if is_stdout else sys.stderr)
PrintTargetAlwaysStdout(is_stdout) == "stdout"
PrintTarget(is_stdout) == IF is_stdout THEN "stdout" ELSE "stderr"

\* The statements of process_wrap after the handler default, in program order.
MainProgramSequential ==
    <<"Popen", "stdout_thread.start", "stdout_thread.join",
      "stderr_thread.start", "stderr_thread.join", "process.wait">>
MainProgramNoStderrJoin ==
    <<"Popen", "stdout_thread.start", "stderr_thread.start",
      "stdout_thread.join", "process.wait">>
MainProgram ==
    <<"Popen", "stdout_thread.start", "stderr_thread.start",
      "stdout_thread.join", "stderr_thread.join", "process.wait">>

Stmt == IF wpc <= Len(MainProgram) THEN MainProgram[wpc] ELSE "returned"

\* What a child may do: up to MaxWrites lines, each to either stream; the k-th
\* line it writes is the line k.
Programs == UNION {[1..n -> Streams] : n \in 0..MaxWrites}

WInit ==
    /\ wpc = 1
    /\ prog = <<>>
    /\ cstate = "none"
    /\ exit_status = None
    /\ pipe = [s \in Streams |-> <<>>]
    /\ closed = [s \in Streams |-> FALSE]
    /\ written = [s \in Streams |-> <<>>]
    /\ tstate = [t \in Threads |-> "new"]
    /\ msg = [t \in Threads |-> None]
    /\ sys_out = [s \in Streams |-> <<>>]
    /\ retcode = None

\* process = subprocess.Popen(cmd_str, stdout=PIPE, stderr=PIPE, text=True, bufsize=1)
Popen ==
    /\ Stmt = "Popen"
    /\ \E p \in Programs : prog' = [k \in DOMAIN p |-> <<p[k], k>>]
    /\ cstate' = "running"
    /\ wpc' = wpc + 1
    /\ UNCHANGED <<pvars, ivars, cvars, nvars, exit_status, pipe, closed, written, tstate, msg, sys_out, retcode>>

\* stdout_thread.start() / stderr_thread.start()
ThreadStart(t) ==
    /\ Stmt = t \o ".start"
    /\ tstate[t] = "new"
    /\ tstate' = [tstate EXCEPT ![t] = "running"]
    /\ wpc' = wpc + 1
    /\ UNCHANGED <<pvars, ivars, cvars, nvars, prog, cstate, exit_status, pipe, closed, written, msg, sys_out, retcode>>

\* stdout_thread.join() / stderr_thread.join(): blocks until the thread is done
ThreadJoin(t) ==
    /\ Stmt = t \o ".join"
    /\ tstate[t] = "done"
    /\ wpc' = wpc + 1
    /\ UNCHANGED <<pvars, ivars, cvars, nvars, prog, cstate, exit_status, pipe, closed, written, tstate, msg, sys_out, retcode>>

\* return process.wait(): blocks until the child has exited
ProcessWait ==
    /\ Stmt = "process.wait"
    /\ cstate = "exited"
    /\ retcode' = exit_status
    /\ wpc' = wpc + 1
    /\ UNCHANGED <<pvars, ivars, cvars, nvars, prog, cstate, exit_status, pipe, closed, written, tstate, msg, sys_out>>

\* handle_stream, "for msg in stream": the next line of the stream
ReadLine(t) ==
    LET s == ThreadArgs(t).stream IN
    /\ tstate[t] = "running"
    /\ msg[t] = None
    /\ pipe[s] # <<>>
    /\ msg' = [msg EXCEPT ![t] = Some(Head(pipe[s]))]
    /\ pipe' = [pipe EXCEPT ![s] = Tail(pipe[s])]
    /\ UNCHANGED <<pvars, ivars, cvars, nvars, wpc, prog, cstate, exit_status, closed, written, tstate, sys_out, retcode>>

\* handle_stream, the loop body: print(msg, end="", file=...)
PrintLine(t) ==
    LET o == PrintTarget(ThreadArgs(t).is_stdout) IN
    /\ tstate[t] = "running"
    /\ msg[t] # None
    /\ sys_out' = [sys_out EXCEPT ![o] = Append(sys_out[o], The(msg[t]))]
    /\ msg' = [msg EXCEPT ![t] = None]
    /\ UNCHANGED <<pvars, ivars, cvars, nvars, wpc, prog, cstate, exit_status, pipe, closed, written, tstate, retcode>>

\* handle_stream, the loop ends: the stream is at end-of-input
EndOfStream(t) ==
    LET s == ThreadArgs(t).stream IN
    /\ tstate[t] = "running"
    /\ msg[t] = None
    /\ pipe[s] = <<>>
    /\ closed[s]
    /\ tstate' = [tstate EXCEPT ![t] = "done"]
    /\ UNCHANGED <<pvars, ivars, cvars, nvars, wpc, prog, cstate, exit_status, pipe, closed, written, msg, sys_out, retcode>>

\* The child writes its next line; the write blocks while the pipe is full.
ChildWrite ==
    /\ cstate = "running"
    /\ prog # <<>>
    /\ LET s == Head(prog)[1]
           line == Head(prog)[2]
       IN  /\ Len(pipe[s]) < PipeCap
           /\ pipe' = [pipe EXCEPT ![s] = Append(pipe[s], line)]
           /\ written' = [written EXCEPT ![s] = Append(written[s], line)]
    /\ prog' = Tail(prog)
    /\ UNCHANGED <<pvars, ivars, cvars, nvars, wpc, cstate, exit_status, closed, tstate, msg, sys_out, retcode>>

\* The child has written everything: it closes both streams and exits.
ChildExit ==
    /\ cstate = "running"
    /\ prog = <<>>
    /\ closed' = [s \in Streams |-> TRUE]
    /\ cstate' = "exited"
    /\ \E c \in WExitCodes : exit_status' = Some(c)
    /\ UNCHANGED <<pvars, ivars, cvars, nvars, wpc, prog, pipe, written, tstate, msg, sys_out, retcode>>

MainStep ==
    \/ Popen
    \/ \E t \in Threads : ThreadStart(t)
    \/ \E t \in Threads : ThreadJoin(t)
    \/ ProcessWait
ReaderStep(t) == ReadLine(t) \/ PrintLine(t) \/ EndOfStream(t)
ChildStep == ChildWrite \/ ChildExit

WNext ==
    \/ Popen
    \/ \E t \in Threads : ThreadStart(t)
    \/ \E t \in Threads : ThreadJoin(t)
    \/ ProcessWait
    \/ \E t \in Threads : ReadLine(t)
    \/ \E t \in Threads : PrintLine(t)
    \/ \E t \in Threads : EndOfStream(t)
    \/ ChildWrite
    \/ ChildExit

(***************************************************************************)
(* install.initialization and run_installation, around process_wrap.       *)
(***************************************************************************)
\* How __import__(req) can end: the module is there, ImportError (caught), or
\* any other exception, which nothing catches.
ImportResults == {"ok", "ImportError", "other"}

\* run_installation: if process_wrap(pip_install + [pkg_name]) == 0
InstallSucceededInverted(code) == code # 0
InstallSucceeded(code) == code = 0

Report(code) ==
    IF InstallSucceeded(code) THEN "Successfully installed" ELSE "Failed to install"

\* run_installation returns after either print; the for loop goes on.
AfterInstallStopOnFailure(code) == IF code = 0 THEN "loop" ELSE "crashed"
AfterInstall(code) == "loop"

\* The locals of a finished process_wrap are gone; the next call starts anew.
WFrameGone ==
    /\ wpc' = 1
    /\ prog' = <<>>
    /\ cstate' = "none"
    /\ exit_status' = None
    /\ pipe' = [s \in Streams |-> <<>>]
    /\ closed' = [s \in Streams |-> FALSE]
    /\ written' = [s \in Streams |-> <<>>]
    /\ tstate' = [t \in Threads |-> "new"]
    /\ msg' = [t \in Threads |-> None]
    /\ sys_out' = [s \in Streams |-> <<>>]
    /\ retcode' = None

IInit ==
    /\ ipc = "start"
    /\ nreqs = 0
    /\ idx = 1
    /\ imports = <<>>
    /\ launches = <<>>
    /\ installs = <<>>

\* requirements = read_requirements(): the lines of requirements.txt
ReadRequirements ==
    /\ ipc = "start"
    /\ \E n \in 0..MaxReqs : nreqs' = n
    /\ ipc' = "loop"
    /\ UNCHANGED <<pvars, wvars, cvars, nvars, idx, imports, launches, installs>>

\* for req in requirements: try: __import__(req) ... except ImportError: ...
ImportReq ==
    /\ ipc = "loop"
    /\ idx <= nreqs
    /\ \E r \in ImportResults :
         /\ imports' = Append(imports, [req |-> idx, result |-> r])
         /\ ipc' = CASE r = "ok" -> "loop"
                     [] r = "ImportError" -> "run_installation"
                     [] OTHER -> "crashed"
         /\ idx' = IF r = "ok" THEN idx + 1 ELSE idx
    /\ UNCHANGED <<pvars, wvars, cvars, nvars, nreqs, launches, installs>>

\* The for loop has run out of requirements.
LoopEnd ==
    /\ ipc = "loop"
    /\ idx > nreqs
    /\ ipc' = "done"
    /\ UNCHANGED <<pvars, wvars, cvars, nvars, nreqs, idx, imports, launches, installs>>

\* run_installation(req): print("Installing ..."), then process_wrap is called.
RunInstallation ==
    /\ ipc = "run_installation"
    /\ launches' = Append(launches, idx)
    /\ ipc' = "process_wrap"
    /\ UNCHANGED <<pvars, wvars, cvars, nvars, nreqs, idx, imports, installs>>

\* process_wrap has returned its code: run_installation prints the report and
\* returns; the frame of process_wrap is gone.
ReportInstallation ==
    /\ ipc = "process_wrap"
    /\ Stmt = "returned"
    /\ installs' = Append(installs, [req |-> idx,
                                      status |-> The(exit_status),
                                      code |-> The(retcode),
                                      report |-> Report(The(retcode)),
                                      exited |-> cstate = "exited",
                                      joined |-> \A t \in Threads : tstate[t] = "done"])
    /\ ipc' = AfterInstall(The(retcode))
    /\ idx' = idx + 1
    /\ WFrameGone
    /\ UNCHANGED <<pvars, cvars, nvars, nreqs, imports, launches>>

INext ==
    \/ ReadRequirements
    \/ ImportReq
    \/ LoopEnd
    \/ RunInstallation
    \/ ReportInstallation
    \/ (ipc = "process_wrap" /\ Popen)
    \/ (ipc = "process_wrap" /\ \E t \in Threads : ThreadStart(t))
    \/ (ipc = "process_wrap" /\ \E t \in Threads : ThreadJoin(t))
    \/ (ipc = "process_wrap" /\ ProcessWait)
    \/ (ipc = "process_wrap" /\ \E t \in Threads : ReadLine(t))
    \/ (ipc = "process_wrap" /\ \E t \in Threads : PrintLine(t))
    \/ (ipc = "process_wrap" /\ \E t \in Threads : EndOfStream(t))
    \/ (ipc = "process_wrap" /\ ChildWrite)
    \/ (ipc = "process_wrap" /\ ChildExit)

(***************************************************************************)
(* Several calls of upscale_with_vectorization at once: what each does to  *)
(* the temp directory they share (svgutils.py lines 73-100 and 128-140).   *)
(***************************************************************************)
CallIds == 1..NumCalls

Live(c) == cpc[c] \notin {"idle", "returned"}

\* One access of call c to file f, and whose file f was at that moment.
Access(c, op, f) ==
    [call |-> c, op |-> op, file |-> f,
     own |-> f \in ccreated[c],
     foreign |-> \E d \in CallIds \ {c} : Live(d) /\ f \in ccreated[d]]

CInit ==
    /\ cpc = [c \in CallIds |-> "idle"]
    /\ cbmp = [c \in CallIds |-> None]
    /\ csvg = [c \in CallIds |-> None]
    /\ cfs = {}
    /\ ccreated = [c \in CallIds |-> {}]
    /\ cops = {}

CGoto(c, l) == cpc' = [cpc EXCEPT ![c] = l]

\* Steps 0 to 2 touch no temp file; any of them may raise.
CStart(c) ==
    /\ cpc[c] = "idle"
    /\ \/ CGoto(c, "step3_create")
       \/ CGoto(c, "returned")
    /\ UNCHANGED <<pvars, wvars, ivars, nvars, cbmp, csvg, cfs, ccreated, cops>>

\* with tempfile.NamedTemporaryFile(suffix=".bmp", delete=False) as bmp_file
CCreateBmp(c) ==
    /\ cpc[c] = "step3_create"
    /\ \/ LET f == TempFile(FreshId(cfs, ".bmp"), ".bmp") IN
             /\ FreeIds(cfs, ".bmp") # {}
             /\ cfs' = cfs \cup {f}
             /\ ccreated' = [ccreated EXCEPT ![c] = @ \cup {f}]
             /\ cbmp' = [cbmp EXCEPT ![c] = Some(f)]
             /\ CGoto(c, "step3_write")
       \/ /\ CGoto(c, "returned")
          /\ UNCHANGED <<cfs, ccreated, cbmp>>
    /\ UNCHANGED <<pvars, wvars, ivars, nvars, csvg, cops>>

\* bmp_file.write(bmp_data); a failure here is outside the try/finally
CWriteBmp(c) ==
    /\ cpc[c] = "step3_write"
    /\ \/ /\ cops' = cops \cup {Access(c, "write", The(cbmp[c]))}
          /\ CGoto(c, "step4_mkstemp")
       \/ /\ CGoto(c, "returned")
          /\ UNCHANGED cops
    /\ UNCHANGED <<pvars, wvars, ivars, nvars, cbmp, csvg, cfs, ccreated>>

\* svg_fd, svg_file_path = tempfile.mkstemp(suffix=".svg")
CMkstemp(c) ==
    /\ cpc[c] = "step4_mkstemp"
    /\ \/ LET f == TempFile(FreshId(cfs, ".svg"), ".svg") IN
             /\ FreeIds(cfs, ".svg") # {}
             /\ cfs' = cfs \cup {f}
             /\ ccreated' = [ccreated EXCEPT ![c] = @ \cup {f}]
             /\ csvg' = [csvg EXCEPT ![c] = Some(f)]
             /\ CGoto(c, "step4_run")
       \/ /\ CGoto(c, "cleanup_bmp")
          /\ UNCHANGED <<cfs, ccreated, csvg>>
    /\ UNCHANGED <<pvars, wvars, ivars, nvars, cbmp, cops>>

\* subprocess.run(["potrace", ..., bmp_file_path, "-o", svg_file_path]) and the
\* check of its return code: the call's own child reads the one and writes the
\* other.
CRunPotrace(c) ==
    /\ cpc[c] = "step4_run"
    /\ cops' = cops \cup {Access(c, "trace", The(cbmp[c])), Access(c, "trace", The(csvg[c]))}
    /\ \/ CGoto(c, "step5")
       \/ CGoto(c, "cleanup_bmp")
    /\ UNCHANGED <<pvars, wvars, ivars, nvars, cbmp, csvg, cfs, ccreated>>

\* with open(svg_file_path, "rb") as svg_file: svg_data = svg_file.read()
CReadSvg(c) ==
    /\ cpc[c] = "step5"
    /\ \/ /\ cops' = cops \cup {Access(c, "read", The(csvg[c]))}
          /\ CGoto(c, "step6")
       \/ /\ CGoto(c, "cleanup_bmp")
          /\ UNCHANGED cops
    /\ UNCHANGED <<pvars, wvars, ivars, nvars, cbmp, csvg, cfs, ccreated>>

\* Steps 6 and 7 work in memory; ended or failed, the finally block is next.
CRasterize(c) ==
    /\ cpc[c] = "step6"
    /\ CGoto(c, "cleanup_bmp")
    /\ UNCHANGED <<pvars, wvars, ivars, nvars, cbmp, csvg, cfs, ccreated, cops>>

\* finally: if os.path.exists(path): try: os.remove(path) except OSError: pass
CRemove(c, path, next) ==
    /\ \/ /\ path # None /\ The(path) \in cfs
          /\ cfs' = cfs \ path
          /\ ccreated' = [ccreated EXCEPT ![c] = @ \ path]
          /\ cops' = cops \cup {Access(c, "remove", The(path))}
       \/ /\ path # None /\ The(path) \in cfs
          /\ cops' = cops \cup {Access(c, "remove", The(path))}
          /\ UNCHANGED <<cfs, ccreated>>
       \/ /\ IF path = None THEN TRUE ELSE The(path) \notin cfs
          /\ UNCHANGED <<cfs, ccreated, cops>>
    /\ CGoto(c, next)
    /\ UNCHANGED <<pvars, wvars, ivars, nvars, cbmp, csvg>>

CCleanupBmp(c) == cpc[c] = "cleanup_bmp" /\ CRemove(c, cbmp[c], "cleanup_svg")
CCleanupSvg(c) == cpc[c] = "cleanup_svg" /\ CRemove(c, csvg[c], "returned")

CNext ==
    \/ \E c \in CallIds : CStart(c)
    \/ \E c \in CallIds : CCreateBmp(c)
    \/ \E c \in CallIds : CWriteBmp(c)
    \/ \E c \in CallIds : CMkstemp(c)
    \/ \E c \in CallIds : CRunPotrace(c)
    \/ \E c \in CallIds : CReadSvg(c)
    \/ \E c \in CallIds : CRasterize(c)
    \/ \E c \in CallIds : CCleanupBmp(c)
    \/ \E c \in CallIds : CCleanupSvg(c)

(***************************************************************************)
(* The node classes of svg_node.py and the host that executes them: the    *)
(* host builds one keyword argument per name under "required" in           *)
(* INPUT_TYPES and calls the method named by FUNCTION with them.           *)
(***************************************************************************)
NodeClasses == {"ResizeImageNode", "VectorizedUpscaleScaling", "VectorizedUpscaleSize"}

\* What the widgets and links can deliver.
Images == {"img1", "img2"}
Ints == {256, 512}
Floats == {DefaultScale, 20}
Methods == {"NEAREST", "LANCZOS", "BICUBIC"}

\* FUNCTION = "..."
FUNCTION(n) ==
    CASE n = "ResizeImageNode" -> "resize_image"
      [] n = "VectorizedUpscaleScaling" -> "vectorized_upscale"
      [] n = "VectorizedUpscaleSize" -> "vectorized_upscale_size"

\* INPUT_TYPES(cls)["required"]: for each class, every dictionary of inputs
\* the host can build, one key per declared name.
InputTypes(n) ==
    CASE n = "ResizeImageNode" ->
             {[image |-> i, size |-> z, method |-> m] :
                  i \in Images, z \in Ints, m \in Methods}
      [] n = "VectorizedUpscaleScaling" ->
             {[image |-> i, scale |-> x] : i \in Images, x \in Floats}
      [] n = "VectorizedUpscaleSize" ->
             {[image |-> i, width |-> w, height |-> h] :
                  i \in Images, w \in Ints, h \in Ints}

RequiredInputs(n) == DOMAIN (CHOOSE kw \in InputTypes(n) : TRUE)

\* The parameters of the method named by FUNCTION; none has a default.
FunctionParams(f) ==
    CASE f = "resize_image" -> {"image", "width", "height", "method"}
      [] f = "vectorized_upscale" -> {"image", "scale"}
      [] f = "vectorized_upscale_size" -> {"image", "width", "height"}

\* getattr(obj, obj.FUNCTION)(**kwargs): a keyword that is no parameter, or a
\* parameter without a value, is a TypeError.
Bind(f, kw) == IF DOMAIN kw = FunctionParams(f) THEN "ok" ELSE "TypeError"

NInit ==
    /\ node = "none"
    /\ kwargs = <<>>
    /\ bound = "none"
    /\ execs = 0

\* The host takes a node of the graph and collects its declared inputs.
HostPrepare ==
    /\ bound # "pending"
    /\ execs < MaxExecs
    /\ \E n \in NodeClasses :
          /\ node' = n
          /\ \E kw \in InputTypes(n) : kwargs' = kw
    /\ bound' = "pending"
    /\ execs' = execs + 1
    /\ UNCHANGED <<pvars, wvars, ivars, cvars>>

\* The host calls the node's method with them.
HostCall ==
    /\ bound = "pending"
    /\ bound' = Bind(FUNCTION(node), kwargs)
    /\ UNCHANGED <<pvars, wvars, ivars, cvars, node, kwargs, execs>>

NNext ==
    \/ HostPrepare
    \/ HostCall

(***************************************************************************)
(* Specifications.                                                         *)
(***************************************************************************)
Init == PInit /\ WInit /\ IInit /\ CInit /\ NInit
Next == PNext

\* initialization(): the requirements one after another, a run of process_wrap
\* for each one that has to be installed.
InstallSpec == Init /\ [][INext]_vars

\* NumCalls calls of upscale_with_vectorization, interleaved freely.
ConcSpec == Init /\ [][CNext]_vars

\* The host executing nodes of svg_node.py one after another.
NodeSpec == Init /\ [][NNext]_vars

\* Calls of upscale_with_vectorization, one after another.
Spec == Init /\ [][Next]_vars

\* One run of process_wrap: the caller's thread, the two readers, the child.
WrapSpec == Init /\ [][WNext]_vars

\* The same under the scheduler's guarantee: a thread or process that can take
\* a step is not held back forever.
WrapFairSpec ==
    /\ WrapSpec
    /\ WF_vars(MainStep)
    /\ WF_vars(ChildStep)
    /\ \A t \in Threads : WF_vars(ReaderStep(t))

(***************************************************************************)
(* Properties of process_wrap.                                             *)
(***************************************************************************)
WrapReturned == Stmt = "returned"

IsPrefix(a, b) == Len(a) <= Len(b) /\ SubSeq(b, 1, Len(a)) = a

\* C3: whatever the child writes, in whatever interleaving and however the
\* pipes fill, process_wrap eventually returns.
C3_ProcessWrapReturns == <>WrapReturned
C3_Witness ==
    /\ WrapReturned
    /\ Len(written["stderr"]) > PipeCap
    /\ written["stdout"] = <<>>

\* C4: process_wrap has returned only if both readers are done, a reader is
\* done only if its stream is at end-of-input with nothing held back, and so
\* no unread output is left in either pipe at the return.
C4_ReturnsAfterReaders ==
    /\ \A t \in Threads :
          tstate[t] = "done" =>
              /\ closed[ThreadArgs(t).stream]
              /\ pipe[ThreadArgs(t).stream] = <<>>
              /\ msg[t] = None
    /\ (WrapReturned \/ retcode # None) =>
          /\ \A t \in Threads : tstate[t] = "done"
          /\ \A s \in Streams : pipe[s] = <<>>
C4_Witness ==
    /\ WrapReturned
    /\ written["stdout"] # <<>>
    /\ written["stderr"] # <<>>
    /\ retcode = Some(1)

\* C5: what has been forwarded to the caller's stdout is always a prefix of what
\* the child wrote to its stdout, and is all of it once process_wrap has
\* returned; likewise for stderr.
C5_ForwardsEachStreamInOrder ==
    /\ \A s \in Streams : IsPrefix(sys_out[s], written[s])
    /\ WrapReturned => \A s \in Streams : sys_out[s] = written[s]
C5_Witness ==
    /\ WrapReturned
    /\ written["stdout"] = <<1, 3>>
    /\ written["stderr"] = <<2, 4>>

(***************************************************************************)
(* Claims about initialization and run_installation (InstallSpec).         *)
(***************************************************************************)
\* The requirements examined so far whose import ended as r, in order.
RECURSIVE ReqsWith(_, _)
ReqsWith(seq, r) ==
    IF seq = <<>> THEN <<>>
    ELSE IF seq[1].result = r THEN <<seq[1].req>> \o ReqsWith(Tail(seq), r)
    ELSE ReqsWith(Tail(seq), r)

WrapIdle ==
    /\ wpc = 1
    /\ cstate = "none"
    /\ \A t \in Threads : tstate[t] = "new"

\* C17: the code process_wrap returns is the exit status of the child it
\* launched, zero or not, and run_installation prints "Successfully installed"
\* exactly when that code is 0, "Failed to install" otherwise.
C17_ReportsExitCodeHonestly ==
    /\ retcode # None => (retcode = exit_status /\ cstate = "exited")
    /\ \A i \in 1..Len(installs) :
          /\ installs[i].code = installs[i].status
          /\ installs[i].report = "Successfully installed" <=> installs[i].code = 0
          /\ installs[i].report = "Failed to install" <=> installs[i].code # 0
C17_Witness ==
    /\ Len(installs) = 2
    /\ installs[1].status = 1 /\ installs[1].report = "Failed to install"
    /\ installs[2].status = 0 /\ installs[2].report = "Successfully installed"

\* C18: the requirements are examined in file order, once each; an installer
\* is launched for exactly those whose import raised ImportError, once each; a
\* failed installation does not end the loop (it ends only at the last
\* requirement or at an exception other than ImportError); and while no
\* installation is running there is no child and no reader, each finished
\* installation having seen its child exit and both readers joined.
C18_InstallsMissingInOrder ==
    /\ \A i \in 1..Len(imports) : imports[i].req = i
    /\ Len(imports) = IF ipc \in {"start", "loop", "done"} THEN idx - 1 ELSE idx
    /\ launches = IF ipc = "run_installation"
                   THEN SubSeq(ReqsWith(imports, "ImportError"), 1, Len(launches))
                   ELSE ReqsWith(imports, "ImportError")
    /\ ipc = "run_installation" => Len(launches) + 1 = Len(ReqsWith(imports, "ImportError"))
    /\ \A i \in 1..Len(installs) :
          /\ installs[i].req = launches[i]
          /\ installs[i].exited
          /\ installs[i].joined
    /\ Len(installs) = IF ipc = "process_wrap" THEN Len(launches) - 1 ELSE Len(launches)
    /\ ipc # "process_wrap" => WrapIdle
    /\ ipc = "done" => Len(imports) = nreqs
    /\ ipc = "crashed" => imports[Len(imports)].result = "other"
C18_Witness ==
    /\ ipc = "done"
    /\ nreqs = 2
    /\ Len(installs) = 2
    /\ installs[1].code = 1

(***************************************************************************)
(* Claims about concurrent calls (ConcSpec).                               *)
(***************************************************************************)
\* C15: a temp file name is in use by a call from its creation to its removal.
\* In every interleaving the names in use by two live calls are disjoint, and
\* every write, hand-over to the tracer, read and removal a call makes is of a
\* file that call created and that belongs to no other live call.
C15_TempFilesNotShared ==
    /\ \A a \in CallIds : \A b \in CallIds \ {a} :
          (Live(a) /\ Live(b)) => ccreated[a] \cap ccreated[b] = {}
    /\ \A o \in cops : o.own /\ ~o.foreign
C15_Witness ==
    /\ cpc[1] = "cleanup_svg"
    /\ cpc[2] = "step6"
    /\ \E o \in cops : o.call = 1 /\ o.op = "remove"
    /\ \E o \in cops : o.call = 2 /\ o.op = "read"
    /\ Cardinality(ccreated[2]) = 2

(***************************************************************************)
(* Claims about the node classes (NodeSpec).                               *)
(***************************************************************************)
\* C19: for the node class the host executes, the names declared as required
\* inputs are the parameter names of the method named by FUNCTION, and the
\* call with exactly the declared inputs does not end in a TypeError.
C19_DeclaredInputsMatchParameters ==
    node # "none" =>
        /\ RequiredInputs(node) = FunctionParams(FUNCTION(node))
        /\ bound # "TypeError"

====
